---------------------------- MODULE Spec2Model ----------------------------
(***************************************************************************)
(* Model of kaloriz/payment/services.py: the Midtrans order-id composer,   *)
(* the Snap token reuse/mint decider, the status fetcher, and the          *)
(* item-detail reconciler exercised by kaloriz/payment/tests.py.           *)
(*                                                                         *)
(* Python strings are sequences of one-character strings, so that strip,   *)
(* lower, split, slicing, str() and int() are computed, not assumed.       *)
(* Python None is the one-element sequence NoneVal.                        *)
(***************************************************************************)
EXTENDS Integers, Sequences, FiniteSets, TLC

VARIABLES
    max_length,   \* max_length of the midtrans_order_id field
    order,        \* the Order object handed to get_or_create_snap_token
    last,         \* what the latest get_or_create_snap_token call did
    minted,       \* ids stored by the successful mints so far, in order
    db,           \* the persisted Order row (concurrent requests)
    proc,         \* per request: its Order object and its position
    fetch,        \* input, HTTP outcome and result of a status fetch
    recon,        \* input and result of an item-detail reconciliation
    rt            \* input and result of a compose-then-split round trip

vars == <<max_length, order, last, minted, db, proc, fetch, recon, rt>>

-----------------------------------------------------------------------------
(* Bounds of the model *)

\* the largest small max_length tried for the order-id field
MaxFieldLen == 7

\* mint attempts stop once the retry index reaches this
MaxRetry == 11

\* the longest item_details list reconciled
MaxItems == 2

-----------------------------------------------------------------------------
(* Python string primitives *)

NoneVal == <<"None">>

OrEmpty(s) == IF s = NoneVal THEN <<>> ELSE s

Min(a, b) == IF a <= b THEN a ELSE b

Max(a, b) == IF a >= b THEN a ELSE b

\* s[:n] for n >= 0
Take(s, n) == SubSeq(s, 1, Min(n, Len(s)))

\* s[-n:] for n >= 1
LastN(s, n) == SubSeq(s, Max(1, Len(s) - n + 1), Len(s))

\* s[i:] with i a 1-based start
From(s, i) == SubSeq(s, i, Len(s))

IsSpace(c) == c = " "

RECURSIVE LStrip(_)
LStrip(s) == IF s # <<>> /\ IsSpace(Head(s)) THEN LStrip(Tail(s)) ELSE s

RECURSIVE RStrip(_)
RStrip(s) ==
    IF s # <<>> /\ IsSpace(s[Len(s)]) THEN RStrip(SubSeq(s, 1, Len(s) - 1)) ELSE s

\* str.strip()
Strip(s) == RStrip(LStrip(s))

LowerChar(c) ==
    CASE c = "P" -> "p" [] c = "E" -> "e" [] c = "N" -> "n" [] c = "D" -> "d"
      [] c = "I" -> "i" [] c = "G" -> "g" [] c = "A" -> "a" [] c = "K" -> "k"
      [] c = "R" -> "r" [] OTHER -> c

\* str.lower()
Lower(s) == [i \in 1..Len(s) |-> LowerChar(s[i])]

\* 1-based index of the first occurrence of sep in s, 0 when absent
Find(sep, s) ==
    LET hits == {i \in 1..(Len(s) - Len(sep) + 1) : SubSeq(s, i, i + Len(sep) - 1) = sep}
    IN IF hits = {} THEN 0 ELSE CHOOSE i \in hits : \A j \in hits : i <= j

Digits == <<"0", "1", "2", "3", "4", "5", "6", "7", "8", "9">>

IsDigit(c) == \E d \in 1..10 : Digits[d] = c

DigitVal(c) == (CHOOSE d \in 1..10 : Digits[d] = c) - 1

RECURSIVE DigitsVal(_)
DigitsVal(s) ==
    IF s = <<>> THEN 0 ELSE 10 * DigitsVal(SubSeq(s, 1, Len(s) - 1)) + DigitVal(s[Len(s)])

\* str(n)
RECURSIVE Str(_)
Str(n) ==
    IF n < 0 THEN <<"-">> \o Str(-n)
    ELSE IF n < 10 THEN <<Digits[n + 1]>>
    ELSE Str(n \div 10) \o <<Digits[(n % 10) + 1]>>

\* int(s): surrounding whitespace and one sign are accepted; anything else
\* that is not a run of digits raises ValueError (ok = FALSE).
ParseInt(s) ==
    LET t == Strip(s)
        signed == t # <<>> /\ Head(t) \in {"+", "-"}
        body == IF signed THEN Tail(t) ELSE t
        good == body # <<>> /\ \A i \in 1..Len(body) : IsDigit(body[i])
    IN IF ~good THEN [ok |-> FALSE, val |-> 0]
       ELSE [ok |-> TRUE,
             val |-> IF signed /\ Head(t) = "-" THEN -DigitsVal(body) ELSE DigitsVal(body)]

-----------------------------------------------------------------------------
(* Configuration: Order class attributes and settings *)

\* getattr(Order, "MIDTRANS_RETRY_SEPARATOR", "-R")
MIDTRANS_RETRY_SEPARATOR == <<"-", "R">>

\* getattr(Order, "MIDTRANS_LEGACY_RETRY_SEPARATORS", ("::retry::",))
MIDTRANS_LEGACY_RETRY_SEPARATORS ==
    << <<":", ":", "r", "e", "t", "r", "y", ":", ":">> >>

\* getattr(field, "max_length", 50)
DefaultMaxLength == 50

\* the configured id prefix and the order's primary key
MIDTRANS_ORDER_ID_PREFIX == <<"K">>

OrderPk == 7


-----------------------------------------------------------------------------
(* The order-id composer *)

\* _build_midtrans_base_id, the fallback branch: f"{prefix}-{order.pk}"
BuildMidtransBaseId == Strip(MIDTRANS_ORDER_ID_PREFIX) \o <<"-">> \o Str(OrderPk)

\* separators = [primary] + filter(None, legacy)
Separators ==
    <<MIDTRANS_RETRY_SEPARATOR>>
        \o SelectSeq(MIDTRANS_LEGACY_RETRY_SEPARATORS, LAMBDA x : x # <<>>)

\* the body of the for loop of _split_midtrans_order_id, from separator k on
RECURSIVE SplitFrom(_, _)
SplitFrom(current_id, k) ==
    IF k > Len(Separators) THEN [base |-> current_id, retry |-> 0]
    ELSE LET separator == Separators[k]
             at == Find(separator, current_id)
         IN IF separator # <<>> /\ at > 0
            THEN LET base == SubSeq(current_id, 1, at - 1)
                     suffix == From(current_id, at + Len(separator))
                     parsed == ParseInt(suffix)
                 IN [base |-> IF base = <<>> THEN NoneVal ELSE base,
                     retry |-> IF parsed.ok THEN parsed.val ELSE 0]
            ELSE SplitFrom(current_id, k + 1)

\* _split_midtrans_order_id(order), given order.midtrans_order_id
SplitMidtransOrderId(stored_id) ==
    LET current_id == Strip(OrEmpty(stored_id))
    IN IF current_id = <<>> THEN [base |-> NoneVal, retry |-> 0]
       ELSE SplitFrom(current_id, 1)

\* the composer without any truncation to max_length
ComposeUntruncated(maxlen, base_id, retry_index) ==
    LET base == IF OrEmpty(base_id) = <<>> THEN BuildMidtransBaseId ELSE base_id
    IN IF retry_index <= 0 THEN base
       ELSE base \o MIDTRANS_RETRY_SEPARATOR \o Str(retry_index)

\* _compose_midtrans_order_id(order, base_id, retry_index)
ComposeMidtransOrderId(maxlen, base_id, retry_index) ==
    LET separator == MIDTRANS_RETRY_SEPARATOR
        normalized_base ==
            Take(IF OrEmpty(base_id) = <<>> THEN BuildMidtransBaseId ELSE base_id, maxlen)
        suffix == separator \o Str(retry_index)
        allowed_base_length == maxlen - Len(suffix)
        trimmed_base ==
            IF Take(normalized_base, allowed_base_length) = <<>>
            THEN LastN(normalized_base, allowed_base_length)
            ELSE Take(normalized_base, allowed_base_length)
    IN IF retry_index <= 0 \/ separator = <<>> THEN normalized_base
       ELSE IF Len(suffix) >= maxlen THEN LastN(suffix, maxlen)
       ELSE trimmed_base \o suffix

-----------------------------------------------------------------------------
(* The token reuse/mint decider *)

Pending == <<"p", "e", "n", "d", "i", "n", "g">>

\* the comparison without lower()
IsPendingCaseSensitive(o) == OrEmpty(o.status) = Pending

\* is_pending = (order.status or "").lower() == "pending"
IsPending(o) == Lower(OrEmpty(o.status)) = Pending

\* existing_token = (order.midtrans_snap_token or "").strip()
ExistingToken(o) == Strip(OrEmpty(o.midtrans_snap_token))

\* order.clear_midtrans_snap_token(): the stale token field is cleared
ClearMidtransSnapToken(o) == [o EXCEPT !.midtrans_snap_token = NoneVal]

\* a or b or 0 on integers
OrInt(a, b) == IF a # 0 THEN a ELSE IF b # 0 THEN b ELSE 0

\* the id's suffix preferred over the stored counter
RetryIndexFromIdFirst(o, retry_from_id) == OrInt(retry_from_id, o.midtrans_retry)

\* retry_index = order.midtrans_retry or retry_from_id or 0
RetryIndex(o, retry_from_id) == OrInt(o.midtrans_retry, retry_from_id)

\* lines 143-145, given the (base, retry) split off the stored id
CandidateFromSplit(maxlen, o, sp) ==
    LET base_id == IF OrEmpty(sp.base) = <<>> THEN BuildMidtransBaseId ELSE sp.base
    IN [base_id |-> base_id,
        retry_index |-> RetryIndex(o, sp.retry),
        order_id |-> ComposeMidtransOrderId(maxlen, base_id, RetryIndex(o, sp.retry))]

\* lines 142-145: the base id, the retry index and the candidate order id
Candidate(maxlen, o) ==
    CandidateFromSplit(maxlen, o, SplitMidtransOrderId(o.midtrans_order_id))

\* only a missing key counted as no token
NoTokenNoneOnly(token) == token = NoneVal

\* if not token: a missing key (None) and the empty string are both falsy
NoToken(token) == OrEmpty(token) = <<>>

\* the counter stored without the increment
NextRetrySame(retry_index) == retry_index

\* order.midtrans_retry = retry_index + 1
NextRetry(retry_index) == retry_index + 1

\* lines 158-161: the three fields written by the one save
Persist(o, c, token) ==
    [o EXCEPT !.midtrans_order_id = c.order_id,
              !.midtrans_snap_token = token,
              !.midtrans_retry = NextRetry(c.retry_index)]

Idle ==
    [op |-> "none", pre |-> NoneVal, sent |-> NoneVal, base_id |-> NoneVal,
     retry_index |-> 0, response |-> NoneVal, token |-> NoneVal, reused |-> FALSE,
     creates |-> 0, saves |-> 0, cleared |-> FALSE]

\* lines 136-137: the stored token is returned, nothing else happens
Reuse(o) ==
    [order |-> o,
     last |-> [Idle EXCEPT !.op = "reused", !.pre = o,
                           !.token = ExistingToken(o), !.reused = TRUE]]

\* lines 139-140: a token that is not reusable is cleared
ClearIfStale(o) ==
    IF ExistingToken(o) # <<>> /\ ~IsPending(o) THEN ClearMidtransSnapToken(o) ELSE o

\* lines 147-163, with candidate c sent to the gateway and `response` its
\* answer ("token" entry, NoneVal when the key is missing)
MintWith(o, o1, c, response) ==
    IF NoToken(response)
    THEN [order |-> o1,
          last |-> [Idle EXCEPT !.op = "raised", !.pre = o, !.sent = c.order_id,
                                !.base_id = c.base_id, !.retry_index = c.retry_index,
                                !.response = response, !.creates = 1,
                                !.cleared = (o1 # o)]]
    ELSE [order |-> Persist(o1, c, response),
          last |-> [Idle EXCEPT !.op = "minted", !.pre = o, !.sent = c.order_id,
                                !.base_id = c.base_id, !.retry_index = c.retry_index,
                                !.response = response, !.creates = 1,
                                !.cleared = (o1 # o),
                                !.token = response, !.saves = 1]]

\* lines 139-163: the mint path
Mint(maxlen, o, o1, response) == MintWith(o, o1, Candidate(maxlen, o1), response)

\* get_or_create_snap_token(order, snap_client, base_payload), where the
\* gateway would answer create_transaction with `response`: the order
\* afterwards and what happened
SnapTokenCall(maxlen, o, response) ==
    IF ExistingToken(o) # <<>> /\ IsPending(o)
    THEN Reuse(o)
    ELSE Mint(maxlen, o, ClearIfStale(o), response)

-----------------------------------------------------------------------------
(* Sequential requests on one order *)

Statuses ==
    { NoneVal, Pending,
      <<"P", "E", "N", "D", "I", "N", "G">>,
      <<"P", "e", "n", "d", "i", "n", "g">>,
      <<"p", "a", "i", "d">>,
      <<"e", "x", "p", "i", "r", "e", "d">> }

\* what the gateway may answer: no token key, an empty token, or a token
Responses == { NoneVal, <<>>, <<"t">>, <<"u">>, <<" ">>, <<" ", "t">> }

FieldLengths == (Len(BuildMidtransBaseId)..MaxFieldLen) \cup {DefaultMaxLength}

\* ids an order may hold before its first call here: none, the base id
\* stored by ensure_midtrans_order_id, a retry id, a legacy retry id
StoredIds(maxlen) ==
    { NoneVal, BuildMidtransBaseId }
    \cup { id \in { BuildMidtransBaseId \o MIDTRANS_RETRY_SEPARATOR \o <<"1">>,
                    BuildMidtransBaseId \o MIDTRANS_LEGACY_RETRY_SEPARATORS[1] \o <<"2">> } :
             Len(id) <= maxlen }

Inactive == [phase |-> "off"]

OthersOff ==
    /\ db = Inactive
    /\ proc = Inactive
    /\ fetch = Inactive
    /\ recon = Inactive
    /\ rt = Inactive

Init ==
    /\ max_length \in FieldLengths
    /\ order \in { [status |-> s, midtrans_order_id |-> i,
                    midtrans_snap_token |-> t, midtrans_retry |-> r] :
                   s \in Statuses,
                   i \in StoredIds(max_length),
                   t \in { NoneVal, <<"t">>, <<" ", "t">> },
                   r \in {0, 1, 2, 9} }
    /\ last = Idle
    /\ minted = <<>>
    /\ OthersOff

\* a brand-new order: no stored id, no token, retry counter 0
InitFresh ==
    /\ max_length \in FieldLengths
    /\ order \in { [status |-> s, midtrans_order_id |-> NoneVal,
                    midtrans_snap_token |-> NoneVal, midtrans_retry |-> 0] :
                   s \in Statuses }
    /\ last = Idle
    /\ minted = <<>>
    /\ OthersOff

\* one whole call of get_or_create_snap_token
GetOrCreateSnapToken(response) ==
    LET r == SnapTokenCall(max_length, order, response)
    IN /\ r.last.op # "reused" => r.last.retry_index < MaxRetry
       /\ order' = r.order
       /\ last' = r.last
       /\ minted' = IF r.last.op = "minted"
                    THEN Append(minted, [order_id |-> r.order.midtrans_order_id,
                                         retry_index |-> r.last.retry_index])
                    ELSE minted
       /\ UNCHANGED <<max_length, db, proc, fetch, recon, rt>>

\* the rest of the application moves the order to another status
ExternalStatusChange(s) ==
    /\ s # order.status
    /\ order' = [order EXCEPT !.status = s]
    /\ last' = Idle
    /\ UNCHANGED <<max_length, minted, db, proc, fetch, recon, rt>>

Next ==
    \/ \E response \in Responses : GetOrCreateSnapToken(response)
    \/ \E s \in Statuses : ExternalStatusChange(s)

Spec == Init /\ [][Next]_vars

SpecFresh == InitFresh /\ [][Next]_vars


-----------------------------------------------------------------------------
(* Properties of the sequential decider *)

PendingUpper == <<"P", "E", "N", "D", "I", "N", "G">>

\* the stored token has a character that is not whitespace
HasVisibleChar(token) ==
    token # NoneVal /\ \E i \in 1..Len(token) : token[i] # " "

\* the status spells "pending" in any mix of upper and lower case
SpellsPending(status) ==
    /\ status # NoneVal
    /\ Len(status) = Len(Pending)
    /\ \A i \in 1..Len(Pending) : status[i] \in {Pending[i], PendingUpper[i]}

SameMidtransFields(o, p) ==
    /\ o.midtrans_order_id = p.midtrans_order_id
    /\ o.midtrans_snap_token = p.midtrans_snap_token
    /\ o.midtrans_retry = p.midtrans_retry

\* C1: a call on an order whose token is non-empty after stripping and whose
\* status is "pending" in any case returns (the stored token with its
\* surrounding whitespace stripped, reused = TRUE), calls create_transaction
\* zero times, saves nothing and leaves midtrans_order_id, midtrans_snap_token
\* and midtrans_retry as they were.
C1_ReuseLeavesOrderAlone ==
    (last.op # "none" /\ HasVisibleChar(last.pre.midtrans_snap_token)
                      /\ SpellsPending(last.pre.status))
    => /\ last.op = "reused"
       /\ last.token = Strip(last.pre.midtrans_snap_token)
       /\ last.reused
       /\ last.creates = 0
       /\ last.saves = 0
       /\ SameMidtransFields(order, last.pre)

C1_Witness ==
    /\ last.op = "reused"
    /\ last.pre.status = PendingUpper
    /\ last.token = <<"t">>

\* base + separator + decimal retry fits the field
Fits(maxlen, base, r) ==
    Len(base) + Len(MIDTRANS_RETRY_SEPARATOR) + Len(Str(r)) <= maxlen

\* C2: after a mint with retry index r whose response carries a token, the
\* stored midtrans_order_id is the candidate id that was sent (the base id
\* itself when r = 0, base + separator + r when r >= 1 and that fits), the
\* stored token is the response's token, midtrans_retry is r + 1, exactly one
\* save wrote them, and the result is (token, reused = FALSE).
C2_MintPersistsCandidate ==
    (last.creates = 1 /\ last.response \notin {NoneVal, <<>>})
    => /\ last.op = "minted"
       /\ order.midtrans_order_id = last.sent
       /\ last.retry_index = 0 => last.sent = last.base_id
       /\ (last.retry_index >= 1 /\ Fits(max_length, last.base_id, last.retry_index))
            => last.sent = last.base_id \o MIDTRANS_RETRY_SEPARATOR \o Str(last.retry_index)
       /\ order.midtrans_snap_token = last.response
       /\ order.midtrans_retry = last.retry_index + 1
       /\ last.saves = 1
       /\ last.token = last.response
       /\ ~last.reused

\* the spec's example: stored base id, retry counter 1, no token
C2_Witness ==
    /\ last.op = "minted"
    /\ last.pre.midtrans_order_id = BuildMidtransBaseId
    /\ last.pre.midtrans_retry = 1
    /\ last.pre.midtrans_snap_token = NoneVal
    /\ order.midtrans_order_id = BuildMidtransBaseId \o <<"-", "R", "1">>
    /\ order.midtrans_retry = 2

\* C3: when create_transaction's response has no token (missing or empty),
\* the call raises, midtrans_order_id and midtrans_retry keep their pre-call
\* values, no new token is stored (the token field holds its pre-call value
\* or was cleared as stale), and save is not called.
C3_NoTokenRaisesAndPersistsNothing ==
    (last.creates = 1 /\ last.response \in {NoneVal, <<>>})
    => /\ last.op = "raised"
       /\ order.midtrans_order_id = last.pre.midtrans_order_id
       /\ order.midtrans_retry = last.pre.midtrans_retry
       /\ order.midtrans_snap_token \in {last.pre.midtrans_snap_token, NoneVal}
       /\ last.saves = 0

C3_Witness ==
    /\ last.op = "raised"
    /\ last.response = <<>>
    /\ last.pre.midtrans_order_id # NoneVal
    /\ last.pre.midtrans_retry >= 1

\* C4: a successful call on an order that holds a stored midtrans_order_id
\* and a token that is not reusable (status not pending) stores an order id
\* that differs from the one stored before and contains the retry separator,
\* with create_transaction called exactly once.
C4_ExpiredTokenRegeneratesOrderId ==
    (/\ last.op = "minted"
     /\ OrEmpty(last.pre.midtrans_order_id) # <<>>
     /\ HasVisibleChar(last.pre.midtrans_snap_token)
     /\ ~SpellsPending(last.pre.status))
    => /\ order.midtrans_order_id # last.pre.midtrans_order_id
       /\ Find(MIDTRANS_RETRY_SEPARATOR, order.midtrans_order_id) > 0
       /\ last.creates = 1

\* a non-empty prefix of the order's base identifier
BareBase(id) ==
    \E n \in 1..Len(BuildMidtransBaseId) : id = Take(BuildMidtransBaseId, n)

\* a (possibly truncated) base, a separator and a decimal retry number
BaseSeparatorRetry(id) ==
    \E n \in 0..Len(BuildMidtransBaseId), r \in 1..(MaxRetry + 1), k \in 1..Len(Separators) :
        id = Take(BuildMidtransBaseId, n) \o Separators[k] \o Str(r)

\* the trailing max_length characters of a separator + retry number that is
\* longer than the field
ClippedSuffix(maxlen, id) ==
    \E r \in 1..(MaxRetry + 1) :
        /\ Len(MIDTRANS_RETRY_SEPARATOR \o Str(r)) > maxlen
        /\ id = LastN(MIDTRANS_RETRY_SEPARATOR \o Str(r), maxlen)

\* C5, as claimed: a non-empty midtrans_order_id is a bare base identifier
\* or exactly base + separator + decimal retry number, and is never longer
\* than the field's maximum length.
C5_IdIsBaseOrBaseSeparatorRetry ==
    OrEmpty(order.midtrans_order_id) # <<>>
    => /\ Len(order.midtrans_order_id) <= max_length
       /\ BareBase(order.midtrans_order_id) \/ BaseSeparatorRetry(order.midtrans_order_id)

\* C5, amended: a non-empty midtrans_order_id is never longer than the
\* field's maximum length, and it is a bare base identifier, or base +
\* separator + decimal retry number, or, when separator + retry number alone
\* is longer than the field, the trailing max_length characters of
\* separator + retry number.
C5_IdWithinLengthAndShaped ==
    OrEmpty(order.midtrans_order_id) # <<>>
    => /\ Len(order.midtrans_order_id) <= max_length
       /\ \/ BareBase(order.midtrans_order_id)
          \/ BaseSeparatorRetry(order.midtrans_order_id)
          \/ ClippedSuffix(max_length, order.midtrans_order_id)

\* a mint stored an id whose base had to be truncated to make room
C5_Witness ==
    /\ last.op = "minted"
    /\ Len(order.midtrans_order_id) = max_length
    /\ \E n \in 1..(Len(BuildMidtransBaseId) - 1), r \in 1..MaxRetry :
         order.midtrans_order_id =
            Take(BuildMidtransBaseId, n) \o MIDTRANS_RETRY_SEPARATOR \o Str(r)

\* C9: from a fresh order, midtrans_retry is the number of successful mints
\* so far, the k-th successful mint (k = 0, 1, ...) used retry index k, and
\* no two successful mints whose base + separator + retry fits the field
\* stored the same midtrans_order_id.
C9_FreshOrderMintsDistinctIds ==
    /\ order.midtrans_retry = Len(minted)
    /\ \A k \in 1..Len(minted) : minted[k].retry_index = k - 1
    /\ \A i, j \in 1..Len(minted) :
         (/\ i < j
          /\ Fits(max_length, BuildMidtransBaseId, minted[i].retry_index)
          /\ Fits(max_length, BuildMidtransBaseId, minted[j].retry_index))
         => minted[i].order_id # minted[j].order_id

\* three successful mints, then a failed one
C9_Witness ==
    /\ Len(minted) >= 3
    /\ last.op = "raised"
    /\ Fits(max_length, BuildMidtransBaseId, 2)


-----------------------------------------------------------------------------
(* Two concurrent requests on the same order row *)

Procs == {1, 2}

\* the row's three fields as a save with the stored counter incremented in
\* the database would leave them
UpdateFieldsIncrement(row, obj) ==
    [row EXCEPT !.midtrans_order_id = obj.midtrans_order_id,
                !.midtrans_snap_token = obj.midtrans_snap_token,
                !.midtrans_retry = row.midtrans_retry + 1]

\* order.save(update_fields=[...]): the row takes the object's three fields
UpdateFields(row, obj) ==
    [row EXCEPT !.midtrans_order_id = obj.midtrans_order_id,
                !.midtrans_snap_token = obj.midtrans_snap_token,
                !.midtrans_retry = obj.midtrans_retry]

NoCandidate == [base_id |-> NoneVal, retry_index |-> 0, order_id |-> NoneVal]

InitRace ==
    /\ max_length \in {MaxFieldLen, DefaultMaxLength}
    /\ db \in { [row |-> [status |-> s, midtrans_order_id |-> i,
                          midtrans_snap_token |-> t, midtrans_retry |-> r],
                 writes |-> 0, last_writer |-> 0] :
                s \in { Pending, <<"p", "a", "i", "d">> },
                i \in { NoneVal, BuildMidtransBaseId },
                t \in { NoneVal, <<"t">> },
                r \in {0, 1, 2} }
    /\ proc = [p \in Procs |->
                 [pc |-> "idle", obj |-> NoneVal, cand |-> NoCandidate,
                  token |-> NoneVal, read_at |-> 0]]
    /\ order = Inactive
    /\ last = Inactive
    /\ minted = Inactive
    /\ fetch = Inactive
    /\ recon = Inactive
    /\ rt = Inactive

RaceUnchanged == UNCHANGED <<max_length, order, last, minted, fetch, recon, rt>>

\* the request loads its own Order object from the row
Load(p) ==
    /\ proc[p].pc = "idle"
    /\ proc' = [proc EXCEPT ![p].pc = "loaded", ![p].obj = db.row,
                            ![p].read_at = db.writes]
    /\ UNCHANGED db
    /\ RaceUnchanged

\* lines 133-151: reuse, or clear a stale token and build the candidate id
Decide(p) ==
    /\ proc[p].pc = "loaded"
    /\ LET o == proc[p].obj
           stale == ExistingToken(o) # <<>> /\ ~IsPending(o)
           o1 == IF stale THEN ClearMidtransSnapToken(o) ELSE o
       IN IF ExistingToken(o) # <<>> /\ IsPending(o)
          THEN proc' = [proc EXCEPT ![p].pc = "reused", ![p].token = ExistingToken(o)]
          ELSE proc' = [proc EXCEPT ![p].pc = "sending", ![p].obj = o1,
                                    ![p].cand = Candidate(max_length, o1)]
    /\ UNCHANGED db
    /\ RaceUnchanged

\* lines 153-156: the gateway call and the check of its token
CreateTransaction(p, response) ==
    /\ proc[p].pc = "sending"
    /\ proc' = IF NoToken(response)
               THEN [proc EXCEPT ![p].pc = "raised"]
               ELSE [proc EXCEPT ![p].pc = "saving", ![p].token = response]
    /\ UNCHANGED db
    /\ RaceUnchanged

\* lines 158-161: the three assignments and the save
Save(p) ==
    /\ proc[p].pc = "saving"
    /\ LET obj == Persist(proc[p].obj, proc[p].cand, proc[p].token)
       IN /\ proc' = [proc EXCEPT ![p].pc = "done", ![p].obj = obj]
          /\ db' = [row |-> UpdateFields(db.row, obj),
                    writes |-> db.writes + 1,
                    last_writer |-> p]
    /\ RaceUnchanged

NextRace ==
    \/ \E p \in Procs : Load(p)
    \/ \E p \in Procs : Decide(p)
    \/ \E p \in Procs, response \in {NoneVal, <<"t">>, <<"u">>} : CreateTransaction(p, response)
    \/ \E p \in Procs : Save(p)

SpecRace == InitRace /\ [][NextRace]_vars

\* both requests minted, and both read the row before either saved
BothMintedFromSameRead ==
    /\ \A p \in Procs : proc[p].pc = "done"
    /\ proc[1].read_at = 0
    /\ proc[2].read_at = 0

\* C8: mints on one order are not serialized: whenever two calls both read
\* the order before either saves and both mint, they sent create_transaction
\* the same order id and persisted the same midtrans_retry, so after two
\* saves the counter stands at the retry index + 1 (advanced once, not
\* twice) and the row holds the last writer's token.
C8_RacingMintsCollide ==
    BothMintedFromSameRead
    => /\ proc[1].cand.order_id = proc[2].cand.order_id
       /\ proc[1].obj.midtrans_retry = proc[2].obj.midtrans_retry
       /\ db.writes = 2
       /\ db.row.midtrans_retry = proc[1].cand.retry_index + 1
       /\ db.row.midtrans_order_id = proc[1].cand.order_id
       /\ db.row.midtrans_snap_token = proc[db.last_writer].token

\* the race happened, and the first writer's token was overwritten
C8_Witness ==
    /\ BothMintedFromSameRead
    /\ proc[1].token # proc[2].token
    /\ db.last_writer = 2
    /\ db.row.midtrans_snap_token = proc[2].token
    /\ db.row.midtrans_snap_token # proc[1].obj.midtrans_snap_token


-----------------------------------------------------------------------------
(* The status fetcher *)

\* What urlopen can do with the GET.  "response": it returned (a 2xx status;
\* other statuses are raised as HTTPError); "HTTPError": it raised HTTPError
\* with that code; "URLError": it raised URLError.  A body is its bytes'
\* validity as UTF-8 and the shape of its text once decoded (for invalid
\* bytes: once decoded with errors="replace").
Bodies ==
    { [utf8 |-> TRUE, text |-> "empty"],
      [utf8 |-> TRUE, text |-> "json"],
      [utf8 |-> TRUE, text |-> "garbage"],
      [utf8 |-> FALSE, text |-> "json"],
      [utf8 |-> FALSE, text |-> "garbage"] }

HttpOutcomes ==
    { [kind |-> "response", code |-> c, body |-> b] : c \in {200, 201}, b \in Bodies }
    \cup { [kind |-> "HTTPError", code |-> c, body |-> b] : c \in {401, 404, 500}, b \in Bodies }
    \cup { [kind |-> "URLError", code |-> 0, body |-> [utf8 |-> TRUE, text |-> "empty"]] }

NotSent == [kind |-> "not sent", code |-> 0, body |-> [utf8 |-> TRUE, text |-> "empty"]]

\* base_url: production or sandbox
BaseUrl(is_production) ==
    IF is_production THEN "https://api.midtrans.com" ELSE "https://api.sandbox.midtrans.com"

\* lines 58-65: an empty body and an unparsable body give None
ParseBody(text) ==
    IF text = "empty" THEN [kind |-> "None"]
    ELSE IF text = "json" THEN [kind |-> "json"]
    ELSE [kind |-> "None"]

\* lines 46-65 of fetch_midtrans_transaction_status, given what urlopen did
AfterUrlopen(outcome) ==
    IF outcome.kind = "response"
    THEN \* response.read().decode("utf-8") is strict
         IF ~outcome.body.utf8 THEN [kind |-> "raised"]
         ELSE ParseBody(outcome.body.text)
    ELSE IF outcome.kind = "HTTPError"
    THEN \* exc.read().decode("utf-8", errors="replace"), then only 404 returns
         IF outcome.code = 404 THEN [kind |-> "None"]
         ELSE ParseBody(outcome.body.text)
    ELSE [kind |-> "None"]

\* lines 32-33: no request without an order id and a server key
NoRequest(order_id, server_key) == OrEmpty(order_id) = <<>> \/ OrEmpty(server_key) = <<>>

InitFetch ==
    /\ fetch \in { [phase |-> "in", order_id |-> i, server_key |-> k, is_production |-> b,
                    url |-> "", http |-> NotSent, result |-> [kind |-> "None"]] :
                   i \in { NoneVal, <<>>, BuildMidtransBaseId,
                           BuildMidtransBaseId \o MIDTRANS_RETRY_SEPARATOR \o <<"1">> },
                   k \in { <<>>, <<"k">> },
                   b \in BOOLEAN }
    /\ max_length = DefaultMaxLength
    /\ order = Inactive
    /\ last = Inactive
    /\ minted = Inactive
    /\ db = Inactive
    /\ proc = Inactive
    /\ recon = Inactive
    /\ rt = Inactive

\* one whole call of fetch_midtrans_transaction_status
FetchMidtransTransactionStatus(outcome) ==
    /\ fetch.phase = "in"
    /\ fetch' =
         IF NoRequest(fetch.order_id, fetch.server_key)
         THEN [fetch EXCEPT !.phase = "out"]
         ELSE [fetch EXCEPT !.phase = "out",
                            !.url = BaseUrl(fetch.is_production),
                            !.http = outcome,
                            !.result = AfterUrlopen(outcome)]
    /\ UNCHANGED <<max_length, order, last, minted, db, proc, recon, rt>>

NextFetch == \E outcome \in HttpOutcomes : FetchMidtransTransactionStatus(outcome)

SpecFetch == InitFetch /\ [][NextFetch]_vars

\* C6: fetch_midtrans_transaction_status never raises, and returns None for
\* every outcome of the GET other than a successful (2xx) response with a
\* non-empty, JSON-parsable body: a 404, any other HTTP error status with or
\* without a JSON body, a transport failure, an empty body and an unparsable
\* body all yield None.
C6_FetchNeverRaisesNoneUnlessSuccess ==
    fetch.phase = "out"
    => /\ fetch.result.kind # "raised"
       /\ ~(/\ fetch.http.kind = "response"
            /\ fetch.http.body.utf8
            /\ fetch.http.body.text = "json")
          => fetch.result.kind = "None"

-----------------------------------------------------------------------------
(* The item-detail reconciler *)

\* A value handed to Decimal() is whether it parses and, when it does, its
\* amount in hundredths.
Amount(k) == [valid |-> TRUE, hundredths |-> k]

\* _to_int_amount: Decimal(value or 0), 0 when unparsable, quantized to a
\* whole number with ROUND_HALF_UP (halves go away from zero)
ToIntAmount(value) ==
    IF ~value.valid THEN 0
    ELSE IF value.hundredths >= 0 THEN (value.hundredths + 50) \div 100
    ELSE -((-value.hundredths + 50) \div 100)

RECURSIVE ItemTotal(_)
ItemTotal(items) ==
    IF items = <<>> THEN 0
    ELSE Head(items).price * Head(items).quantity + ItemTotal(Tail(items))

\* an adjustment line appended whether or not the totals already match
EnsureAlwaysAdjusts(items, target) ==
    LET gross == ToIntAmount(target)
    IN [items |-> Append(items, [id |-> "ADJUSTMENT", price |-> gross - ItemTotal(items),
                                 quantity |-> 1]),
        gross |-> gross]

\* _ensure_midtrans_item_detail_total(item_details, gross_amount)
EnsureMidtransItemDetailTotal(items, target) ==
    LET gross == ToIntAmount(target)
        total == ItemTotal(items)
    IN IF total = gross THEN [items |-> items, gross |-> gross]
       ELSE [items |-> Append(items, [id |-> "ADJUSTMENT", price |-> gross - total,
                                      quantity |-> 1]),
             gross |-> gross]

Items == { [id |-> "SKU1", price |-> p, quantity |-> q] : p \in {0, 10, 11}, q \in {1, 2} }

RECURSIVE SeqsUpTo(_, _)
SeqsUpTo(S, n) ==
    IF n = 0 THEN { <<>> }
    ELSE LET shorter == SeqsUpTo(S, n - 1)
         IN shorter \cup { Append(q, x) : q \in shorter, x \in S }

\* target amounts, in hundredths
Targets == { Amount(k) : k \in { -150, -50, 0, 49, 50, 1000, 2100, 2149, 2150, 2200 } }

InitItems ==
    /\ recon \in { [phase |-> "in", items |-> i, target |-> t,
                    out |-> <<>>, gross |-> 0] :
                   i \in SeqsUpTo(Items, MaxItems), t \in Targets }
    /\ max_length = DefaultMaxLength
    /\ order = Inactive
    /\ last = Inactive
    /\ minted = Inactive
    /\ db = Inactive
    /\ proc = Inactive
    /\ fetch = Inactive
    /\ rt = Inactive

Reconcile ==
    /\ recon.phase = "in"
    /\ LET r == EnsureMidtransItemDetailTotal(recon.items, recon.target)
       IN recon' = [recon EXCEPT !.phase = "out", !.out = r.items, !.gross = r.gross]
    /\ UNCHANGED <<max_length, order, last, minted, db, proc, fetch, rt>>

NextItems == Reconcile

SpecItems == InitItems /\ [][NextItems]_vars

\* g is the hundredths amount k rounded to a whole number, halves away from zero
IsRoundHalfUp(k, g) ==
    IF k >= 0 THEN 100 * g - 50 <= k /\ k < 100 * g + 50
    ELSE 100 * g - 50 < k /\ k <= 100 * g + 50

\* C7: the reconciler returns (items', gross) with gross the target rounded
\* half-up to an integer and sum(price * quantity) over items' equal to gross;
\* items' is the input itself when the input already sums to gross, and
\* otherwise the input followed by exactly one item with id "ADJUSTMENT",
\* quantity 1 and price gross - sum(input), which may be negative.
C7_ReconciledTotalIsExact ==
    recon.phase = "out"
    => /\ IsRoundHalfUp(recon.target.hundredths, recon.gross)
       /\ ItemTotal(recon.out) = recon.gross
       /\ ItemTotal(recon.items) = recon.gross => recon.out = recon.items
       /\ ItemTotal(recon.items) # recon.gross
          => /\ Len(recon.out) = Len(recon.items) + 1
             /\ SubSeq(recon.out, 1, Len(recon.items)) = recon.items
             /\ recon.out[Len(recon.out)] =
                  [id |-> "ADJUSTMENT", quantity |-> 1,
                   price |-> recon.gross - ItemTotal(recon.items)]

\* the spec's example: one item of price 11, quantity 2, target 21.00
C7_Witness ==
    /\ recon.phase = "out"
    /\ recon.items = << [id |-> "SKU1", price |-> 11, quantity |-> 2] >>
    /\ recon.target = Amount(2100)
    /\ recon.gross = 21
    /\ recon.out[2].price = -1

-----------------------------------------------------------------------------
(* Composing an order id and splitting it again *)

Bases ==
    { BuildMidtransBaseId,
      <<"K">>,
      <<"K", "-", "R", "B", "-", "7">>,
      <<"K", "-", "R", "1">>,
      <<"K", ":", ":", "r", "e", "t", "r", "y", ":", ":", "7">> }

InitRoundTrip ==
    /\ rt \in { [phase |-> "in", base |-> b, retry_index |-> r,
                 composed |-> NoneVal, split |-> [base |-> NoneVal, retry |-> 0]] :
                b \in Bases, r \in 0..MaxRetry }
    /\ max_length \in FieldLengths
    /\ order = Inactive
    /\ last = Inactive
    /\ minted = Inactive
    /\ db = Inactive
    /\ proc = Inactive
    /\ fetch = Inactive
    /\ recon = Inactive

\* _compose_midtrans_order_id, the id stored, then _split_midtrans_order_id
ComposeThenSplit ==
    /\ rt.phase = "in"
    /\ LET id == ComposeMidtransOrderId(max_length, rt.base, rt.retry_index)
       IN rt' = [rt EXCEPT !.phase = "out", !.composed = id,
                           !.split = SplitMidtransOrderId(id)]
    /\ UNCHANGED <<max_length, order, last, minted, db, proc, fetch, recon>>

NextRoundTrip == ComposeThenSplit

SpecRoundTrip == InitRoundTrip /\ [][NextRoundTrip]_vars

\* C10: for every non-empty base id and retry index r >= 0 whose composed id
\* fits the maximum length, splitting the composed id returns exactly
\* (base, r), also for bases that contain the retry separator or a legacy
\* separator.
C10_SplitInvertsCompose ==
    (/\ rt.phase = "out"
     /\ IF rt.retry_index = 0 THEN Len(rt.base) <= max_length
        ELSE Fits(max_length, rt.base, rt.retry_index))
    => rt.split = [base |-> rt.base, retry |-> rt.retry_index]

=============================================================================
